---- MODULE Spec2Model ----
(***************************************************************************)
(* Model of streamlit_app.py (geo-convert): the geometry-column detector,  *)
(* the geometry builder, the exporter and the Streamlit script that wires  *)
(* them to the session state.                                              *)
(*                                                                         *)
(* Text is a sequence of chunks; the text is the concatenation of its      *)
(* chunks.  Column names are written one character per chunk, so that      *)
(* str.lower() is computed character by character.  Cell values are cut at *)
(* lexical boundaries (keyword, parenthesis, JSON token), so that          *)
(* str.startswith(), the `in` test for braces and the library parsers are  *)
(* computed on the chunks.                                                 *)
(***************************************************************************)
EXTENDS Integers, Sequences, FiniteSets, TLC

VARIABLES
    df,             \* the table handed to the function under check
    call,           \* the call made on df (function name and arguments)
    ret,            \* what the call returned or raised
    uploaded_file,  \* st.file_uploader's value
    widgets,        \* the values of the input widgets
    session_state,  \* st.session_state: gdf and show_output_options
    gdf_origin,     \* history: the upload session_state.gdf was built from
    pc,             \* position of the script run
    run,            \* what the current script run did and displayed
    scratch         \* scratch directories that exist

vars == <<df, call, ret, uploaded_file, widgets, session_state, gdf_origin,
          pc, run, scratch>>

-----------------------------------------------------------------------------
(* Bounds *)

MaxRows == 2
MaxDetectRows == 2
MaxScratch == 2

-----------------------------------------------------------------------------
(* Values *)

None == [t |-> "none"]
Null == [t |-> "null"]
Num(n) == [t |-> "num", v |-> n]
Str(s) == [t |-> "str", s |-> s]

notna(c) == c.t # "null"
isinstance_str(c) == c.t = "str"

Min(a, b) == IF a < b THEN a ELSE b

Range(s) == {s[i] : i \in DOMAIN s}

-----------------------------------------------------------------------------
(* Text *)

UpperLetters == <<"A","B","C","D","E","F","G","H","I","J","K","L","M",
                  "N","O","P","Q","R","S","T","U","V","W","X","Y","Z">>
LowerLetters == <<"a","b","c","d","e","f","g","h","i","j","k","l","m",
                  "n","o","p","q","r","s","t","u","v","w","x","y","z">>

LowerChar(c) ==
    IF \E i \in DOMAIN UpperLetters : UpperLetters[i] = c
    THEN LowerLetters[CHOOSE i \in DOMAIN UpperLetters : UpperLetters[i] = c]
    ELSE c

\* str.lower() of a name written one character per chunk
lower(s) == [i \in DOMAIN s |-> LowerChar(s[i])]

\* str.startswith(prefix)
startswith(s, prefix) ==
    Len(s) >= Len(prefix) /\ SubSeq(s, 1, Len(prefix)) = prefix

\* `chunk in s`, for a chunk that is always cut on its own
contains(s, chunk) == \E i \in DOMAIN s : s[i] = chunk

\* the text with its blank chunks removed
NoBlanks(s) == SelectSeq(s, LAMBDA c : c # " ")

N_geometry == <<"g","e","o","m","e","t","r","y">>
N_geom == <<"g","e","o","m">>
N_shape == <<"s","h","a","p","e">>
N_the_geom == <<"t","h","e","_","g","e","o","m">>
N_wkt == <<"w","k","t">>
N_geojson == <<"g","e","o","j","s","o","n">>
N_polygon == <<"p","o","l","y","g","o","n">>
N_polygon_corrected == N_polygon \o <<"_","c","o","r","r","e","c","t","e","d">>
N_polygon_original == N_polygon \o <<"_","o","r","i","g","i","n","a","l">>

\* the list of line 21
GeometryNames ==
    {N_geometry, N_geom, N_shape, N_the_geom, N_wkt, N_geojson, N_polygon,
     N_polygon_corrected, N_polygon_original}

N_GEOM == <<"G","E","O","M">>
N_Shape == <<"S","h","a","p","e">>
N_id == <<"i","d">>
N_x == <<"x">>
N_y == <<"y">>
N_data == <<"d","a","t","a">>

-----------------------------------------------------------------------------
(* shapely.wkt.loads, json.loads and shapely.geometry.shape on the texts   *)
(* of the model                                                            *)

WktTypes ==
    {"POINT", "LINESTRING", "POLYGON", "MULTIPOINT", "MULTILINESTRING",
     "MULTIPOLYGON"}

UpperWord(w) ==
    CASE w \in {"point", "Point"} -> "POINT"
      [] w \in {"linestring", "LineString"} -> "LINESTRING"
      [] w \in {"polygon", "Polygon"} -> "POLYGON"
      [] w \in {"multipoint", "MultiPoint"} -> "MULTIPOINT"
      [] w \in {"multilinestring", "MultiLineString"} -> "MULTILINESTRING"
      [] w \in {"multipolygon", "MultiPolygon"} -> "MULTIPOLYGON"
      [] OTHER -> w

\* the coordinates a WKT body of the given type denotes, <<>> when the body
\* is no coordinate list of that type
WktBody(type, body) ==
    CASE type = "POINT" /\ body = "1 2" -> <<1, 2>>
      [] type = "POINT" /\ body = "3 4" -> <<3, 4>>
      [] type = "MULTIPOINT" /\ body = "1 2" -> <<1, 2>>
      [] type = "LINESTRING" /\ body = "0 0,1 1" -> <<0, 0, 1, 1>>
      [] type = "POLYGON" /\ body = "(0 0,1 0,1 1,0 1,0 0)"
            -> <<0, 0, 1, 0, 1, 1, 0, 1, 0, 0>>
      [] OTHER -> <<>>

\* wkt.loads(v): the reader is case-insensitive and skips blanks
wkt_loads(v) ==
    IF ~isinstance_str(v) THEN [ok |-> FALSE, geom |-> None]
    ELSE LET s == NoBlanks(v.s)
             type == IF s = <<>> THEN "" ELSE UpperWord(s[1])
         IN IF /\ Len(s) = 4
               /\ type \in WktTypes
               /\ s[2] = "("
               /\ s[4] = ")"
               /\ WktBody(type, s[3]) # <<>>
            THEN [ok |-> TRUE,
                  geom |-> [t |-> "geom", type |-> type,
                            coords |-> WktBody(type, s[3])]]
            ELSE [ok |-> FALSE, geom |-> None]

JsonKeys == {"\"type\"", "\"coordinates\"", "\"geometry\"", "\"id\""}
JsonScalars ==
    {"\"Point\"", "\"Feature\"", "\"Blob\"", "[1,2]", "[3,4]", "null", "7"}

\* json.loads(v) for a flat object: { key : value , key : value ... }
json_loads(v) ==
    IF ~isinstance_str(v) THEN [ok |-> FALSE, obj |-> <<>>]
    ELSE LET s == NoBlanks(v.s)
             n == Len(s) - 2
             inner == SubSeq(s, 2, Len(s) - 1)
             wellFormed ==
                 /\ Len(s) >= 2
                 /\ s[1] = "{"
                 /\ s[Len(s)] = "}"
                 /\ n = 0 \/ n % 4 = 3
                 /\ \A i \in 1..n :
                       CASE i % 4 = 1 -> inner[i] \in JsonKeys
                         [] i % 4 = 2 -> inner[i] = ":"
                         [] i % 4 = 3 -> inner[i] \in JsonScalars
                         [] OTHER -> inner[i] = ","
             keys == {inner[i] : i \in {j \in 1..n : j % 4 = 1}}
             last(k) == CHOOSE i \in 1..n :
                            /\ i % 4 = 1 /\ inner[i] = k
                            /\ \A j \in 1..n :
                                 (j % 4 = 1 /\ inner[j] = k) => j <= i
         IN IF wellFormed
            THEN [ok |-> TRUE, obj |-> [k \in keys |-> inner[last(k) + 2]]]
            ELSE [ok |-> FALSE, obj |-> <<>>]

JsonCoords(c) ==
    CASE c = "[1,2]" -> <<1, 2>>
      [] c = "[3,4]" -> <<3, 4>>
      [] OTHER -> <<>>

\* shape(obj): a geometry for a GeoJSON geometry object, raises otherwise
shape(obj) ==
    IF /\ "\"type\"" \in DOMAIN obj
       /\ obj["\"type\""] = "\"Point\""
       /\ "\"coordinates\"" \in DOMAIN obj
       /\ JsonCoords(obj["\"coordinates\""]) # <<>>
    THEN [ok |-> TRUE,
          geom |-> [t |-> "geom", type |-> "POINT",
                    coords |-> JsonCoords(obj["\"coordinates\""])]]
    ELSE [ok |-> FALSE, geom |-> None]

\* float(v) as Point() applies it to a coordinate that is no number
DigitValue(c) ==
    CASE c = "0" -> 0 [] c = "1" -> 1 [] c = "2" -> 2 [] c = "3" -> 3
      [] c = "4" -> 4 [] c = "5" -> 5 [] c = "6" -> 6 [] c = "7" -> 7
      [] c = "8" -> 8 [] c = "9" -> 9 [] OTHER -> -1

RECURSIVE DigitsValue(_)
DigitsValue(s) ==
    IF s = <<>> THEN 0
    ELSE DigitsValue(SubSeq(s, 1, Len(s) - 1)) * 10 + DigitValue(s[Len(s)])

to_float(c) ==
    CASE c.t = "num" -> [ok |-> TRUE, v |-> c.v]
      [] c.t = "str" /\ c.s # <<>> /\ \A i \in DOMAIN c.s : DigitValue(c.s[i]) >= 0
            -> [ok |-> TRUE, v |-> DigitsValue(c.s)]
      [] OTHER -> [ok |-> FALSE, v |-> 0]

-----------------------------------------------------------------------------
(* Tables: pandas DataFrame and geopandas GeoDataFrame                     *)

\* DataFrame: cols is the sequence of column names, rows the sequence of
\* rows, each row a tuple of cells in column order
DataFrame(cols, rows) == [t |-> "df", cols |-> cols, rows |-> rows]

ColIdx(d, col) == CHOOSE i \in DOMAIN d.cols : d.cols[i] = col

\* df[col]
Column(d, col) == [r \in DOMAIN d.rows |-> d.rows[r][ColIdx(d, col)]]

\* Series.dropna()
dropna(series) == SelectSeq(series, notna)

\* Series.head(n)
head(series, n) == SubSeq(series, 1, Min(n, Len(series)))

\* Series.dtype == object: a column read from text holds strings or numbers
dtype_object(series) == \E i \in DOMAIN series : series[i].t = "str"

SampleSize == 5

-----------------------------------------------------------------------------
(* detect_geometry_columns                                                 *)

\* a variant that compares the name as written
NameCandidates_CaseSensitive(d) ==
    SelectSeq(d.cols, LAMBDA col : col \in GeometryNames)

\* lines 20-22: the columns whose lower-cased name is in the list
NameCandidates(d) ==
    SelectSeq(d.cols, LAMBDA col : lower(col) \in GeometryNames)

\* lines 32-46: "append" when the first sampled value starts with a WKT
\* keyword and parses, "except" when wkt.loads raised (and was swallowed)
WktCheck(first_val) ==
    IF /\ isinstance_str(first_val)
       /\ \/ startswith(first_val.s, <<"POINT">>)
          \/ startswith(first_val.s, <<"POLYGON">>)
          \/ startswith(first_val.s, <<"MULTIPOLYGON">>)
          \/ startswith(first_val.s, <<"LINESTRING">>)
          \/ startswith(first_val.s, <<"MULTILINESTRING">>)
    THEN IF wkt_loads(first_val).ok THEN "append" ELSE "except"
    ELSE "no"

\* lines 49-57
GeoJsonCheck(first_val) ==
    IF /\ isinstance_str(first_val)
       /\ contains(first_val.s, "{")
       /\ contains(first_val.s, "}")
    THEN IF ~json_loads(first_val).ok THEN "except"
         ELSE IF /\ "\"type\"" \in DOMAIN json_loads(first_val).obj
                 /\ "\"coordinates\"" \in DOMAIN json_loads(first_val).obj
              THEN "append" ELSE "no"
    ELSE "no"

\* lines 45-46 and 56-57: except Exception: pass
try_except_pass(outcome) == IF outcome = "except" THEN "no" ELSE outcome

\* line 28
Sample(d, col) == head(dropna(Column(d, col)), SampleSize)

\* lines 26-57 for one column: is it appended for its content
ContentCandidate(d, col) ==
    LET sample == Sample(d, col)
    IN /\ dtype_object(sample)
       /\ Len(sample) > 0
       /\ \/ try_except_pass(WktCheck(sample[1])) = "append"
          \/ try_except_pass(GeoJsonCheck(sample[1])) = "append"

\* does an exception leave the loop of lines 25-57 for this column
ContentRaises(d, col) ==
    LET sample == Sample(d, col)
    IN /\ dtype_object(sample)
       /\ Len(sample) > 0
       /\ \/ try_except_pass(WktCheck(sample[1])) = "except"
          \/ /\ try_except_pass(WktCheck(sample[1])) # "append"
             /\ try_except_pass(GeoJsonCheck(sample[1])) = "except"

detect_geometry_columns(d) ==
    LET byName == NameCandidates(d)
        byContent ==
            SelectSeq(d.cols,
                      LAMBDA col : /\ col \notin Range(byName)
                                   /\ ContentCandidate(d, col))
        raised == \E i \in DOMAIN d.cols :
                     /\ d.cols[i] \notin Range(byName)
                     /\ ContentRaises(d, d.cols[i])
    IN [t |-> "detected",
        raised |-> raised,
        geometry_candidates |-> IF raised THEN <<>> ELSE byName \o byContent,
        df |-> d]

-----------------------------------------------------------------------------
(* Inputs of the detector: two-column tables                               *)

T_point == <<"POINT", "(", "1 2", ")">>
T_point_lower == <<"point", "(", "1 2", ")">>
T_point_space == <<"POINT", " ", "(", "1 2", ")">>
T_point_open == <<"POINT", "(">>
T_multipoint == <<"MULTIPOINT", "(", "1 2", ")">>
T_foo == <<"f", "o", "o">>
T_json_point ==
    <<"{", "\"type\"", ":", "\"Point\"", ",", "\"coordinates\"", ":", "[1,2]", "}">>
T_json_feature ==
    <<"{", "\"type\"", ":", "\"Feature\"", ",", "\"geometry\"", ":", "null", "}">>
T_json_broken == <<"{", "\"type\"", "}">>
T_ten == <<"1", "0">>

DetectTextCells ==
    {Null, Str(T_point), Str(T_point_lower), Str(T_point_space),
     Str(T_point_open),
     Str(T_multipoint), Str(T_foo), Str(T_json_point), Str(T_json_feature),
     Str(T_json_broken)}
DetectNumCells == {Null, Num(1)}
DetectOtherCells == {Null, Str(T_point), Str(T_foo)}

DetectNames1 == {N_geometry, N_GEOM, N_data}
DetectNames2 == {N_Shape, N_x}

SeqsUpTo(S, n) == UNION {[1..k -> S] : k \in 0..n}

\* a column is read as numbers or as strings, never both
Homogeneous(series) ==
    ~(\E i \in DOMAIN series : series[i].t = "num"
      /\ \E j \in DOMAIN series : series[j].t = "str")

DetectTables ==
    {DataFrame(<<n1, n2>>, rows) :
        n1 \in DetectNames1, n2 \in DetectNames2,
        rows \in {r \in SeqsUpTo((DetectTextCells \cup DetectNumCells)
                                  \X DetectOtherCells, MaxDetectRows) :
                     Homogeneous([i \in DOMAIN r |-> r[i][1]])}}

-----------------------------------------------------------------------------
(* convert_csv_to_geodataframe                                             *)

\* pyproj resolves the string handed to GeoDataFrame(crs=...)
CrsResolves(crs) == crs \in {"EPSG:4326", "EPSG:3857"}

GeoDataFrame(cols, rows, geometry, crs) ==
    [t |-> "gdf", cols |-> cols, rows |-> rows, geometry |-> geometry,
     crs |-> crs]

\* the index of the first element of flags that is FALSE, 0 when none is
FirstFalse(flags) ==
    IF \A i \in DOMAIN flags : flags[i] THEN 0
    ELSE CHOOSE i \in DOMAIN flags :
             ~flags[i] /\ \A j \in 1..(i - 1) : flags[j]

\* Point(xy) of line 83
Point(lon, lat) ==
    [t |-> "geom", type |-> "POINT",
     coords |-> <<to_float(lon).v, to_float(lat).v>>]

\* lines 77-80: the rows points mode keeps
ValidCoords(d, lon_col, lat_col) ==
    [i \in DOMAIN d.rows |->
        notna(Column(d, lon_col)[i]) /\ notna(Column(d, lat_col)[i])]

\* lines 90-93 and 108-111: the rows wkt and geojson mode keep
ValidGeoms(d, geom_col) ==
    [i \in DOMAIN d.rows |-> notna(Column(d, geom_col)[i])]

\* df[mask].copy()
Filter(d, mask) ==
    LET idx == {i \in DOMAIN d.rows : mask[i]}
        RECURSIVE Build(_)
        Build(k) ==
            IF k > Len(d.rows) THEN <<>>
            ELSE (IF k \in idx THEN <<d.rows[k]>> ELSE <<>>) \o Build(k + 1)
    IN DataFrame(d.cols, Build(1))

\* st.warning of lines 78-79, 91-92, 109-110: the count it reports
Warnings(mask) ==
    IF \A i \in DOMAIN mask : mask[i] THEN <<>>
    ELSE <<Cardinality({i \in DOMAIN mask : ~mask[i]})>>

\* df.drop(columns=[geom_col])
DropColumn(d, col) ==
    LET k == ColIdx(d, col)
        cut(seq) == SubSeq(seq, 1, k - 1) \o SubSeq(seq, k + 1, Len(seq))
    IN DataFrame(cut(d.cols), [i \in DOMAIN d.rows |-> cut(d.rows[i])])

\* gpd.GeoDataFrame(data, geometry=geometry, crs=crs) of lines 84, 99 and
\* 117: the geometries become the column named "geometry"; a column of data
\* with that name is overwritten by them
SetGeometry(data, geometry, crs) ==
    LET rest == IF N_geometry \in Range(data.cols)
                THEN DropColumn(data, N_geometry) ELSE data
    IN GeoDataFrame(rest.cols, rest.rows, geometry, crs)

Returned(gdf, warnings, constructed, d) ==
    [t |-> "returned", exc |-> "", gdf |-> gdf, warnings |-> warnings,
     errors |-> <<>>, constructed |-> constructed, df |-> d]

Raised(exc, warnings, errors, constructed, d) ==
    [t |-> "raised", exc |-> exc, gdf |-> None, warnings |-> warnings,
     errors |-> errors, constructed |-> constructed, df |-> d]

\* lines 72-84
ConvertPoints(d, lon_col, lat_col, crs) ==
    LET mask == ValidCoords(d, lon_col, lat_col)
        kept == Filter(d, mask)
        lon == Column(kept, lon_col)
        lat == Column(kept, lat_col)
        made == [i \in DOMAIN kept.rows |->
                    to_float(lon[i]).ok /\ to_float(lat[i]).ok]
        bad == FirstFalse(made)
        geometry == [i \in DOMAIN kept.rows |-> Point(lon[i], lat[i])]
    IN IF bad # 0
       THEN Raised("ValueError", Warnings(mask), <<>>, bad - 1, d)
       ELSE IF ~CrsResolves(crs)
       THEN Raised("CRSError", Warnings(mask), <<>>, Len(kept.rows), d)
       ELSE Returned(SetGeometry(kept, geometry, crs),
                     Warnings(mask), Len(kept.rows), d)

\* line 115: shape(json.loads(x))
shape_json_loads(v) ==
    IF json_loads(v).ok THEN shape(json_loads(v).obj)
    ELSE [ok |-> FALSE, geom |-> None]

\* line 97 for mode wkt, line 115 for mode geojson
Parse(mode, v) == IF mode = "wkt" THEN wkt_loads(v) ELSE shape_json_loads(v)

\* lines 101 and 119
ParseMessage(mode) ==
    IF mode = "wkt" THEN "Error parsing WKT geometries"
    ELSE "Error parsing GeoJSON geometries"

\* a variant that drops the rows that do not parse
ConvertParsed_SkipsBadRows(d, mode, geom_col, crs) ==
    LET mask == [i \in DOMAIN d.rows |->
                    /\ notna(Column(d, geom_col)[i])
                    /\ Parse(mode, Column(d, geom_col)[i]).ok]
        kept == Filter(d, mask)
        values == Column(kept, geom_col)
        geometry == [i \in DOMAIN kept.rows |-> Parse(mode, values[i]).geom]
        df_copy == DropColumn(kept, geom_col)
    IN IF ~CrsResolves(crs)
       THEN Raised("CRSError", Warnings(mask), <<ParseMessage(mode)>>,
                   Len(kept.rows), d)
       ELSE Returned(SetGeometry(df_copy, geometry, crs),
                     Warnings(mask), Len(kept.rows), d)

\* lines 86-102 (mode wkt) and 104-120 (mode geojson)
ConvertParsed(d, mode, geom_col, crs) ==
    LET mask == ValidGeoms(d, geom_col)
        kept == Filter(d, mask)
        values == Column(kept, geom_col)
        made == [i \in DOMAIN kept.rows |-> Parse(mode, values[i]).ok]
        bad == FirstFalse(made)
        geometry == [i \in DOMAIN kept.rows |-> Parse(mode, values[i]).geom]
        df_copy == DropColumn(kept, geom_col)
    IN IF bad # 0
       THEN Raised("ParseError", Warnings(mask), <<ParseMessage(mode)>>,
                   bad - 1, d)
       ELSE IF ~CrsResolves(crs)
       THEN Raised("CRSError", Warnings(mask), <<ParseMessage(mode)>>,
                   Len(kept.rows), d)
       ELSE Returned(SetGeometry(df_copy, geometry, crs),
                     Warnings(mask), Len(kept.rows), d)

convert_csv_to_geodataframe(d, mode, kwargs) ==
    IF mode = "points"
    THEN ConvertPoints(d, kwargs.lon_col, kwargs.lat_col, kwargs.crs)
    ELSE ConvertParsed(d, mode, kwargs.geom_col, kwargs.crs)

\* a variant that resets the session when the builder raises
BuildButton_ResetsOnFailure(ss, d, mode, kwargs) ==
    LET r == convert_csv_to_geodataframe(d, mode, kwargs)
    IN IF r.t = "raised" THEN [gdf |-> None, show_output_options |-> FALSE]
       ELSE [gdf |-> r.gdf, show_output_options |-> TRUE]

\* lines 264-265 and 271, 281-282 and 288, 298-299 and 305: the button's
\* handler.  An exception of the builder leaves before the assignments.
BuildButton(ss, d, mode, kwargs) ==
    LET r == convert_csv_to_geodataframe(d, mode, kwargs)
    IN IF r.t = "raised" THEN ss
       ELSE [gdf |-> r.gdf, show_output_options |-> TRUE]

-----------------------------------------------------------------------------
(* Inputs of the builder: tables of three columns                          *)

LonCells == {Null, Num(1), Str(T_ten), Str(T_foo)}
LatCells == {Null, Num(2)}
GeomCells == {Null, Str(T_point), Str(T_json_point)}

BuildCols == <<N_x, N_y, N_wkt>>
BuildColsGeometry == <<N_x, N_y, N_geometry>>

BuildTables ==
    {DataFrame(cols, rows) :
        cols \in {BuildCols, BuildColsGeometry},
        rows \in {r \in SeqsUpTo(LonCells \X LatCells \X GeomCells, MaxRows) :
                     Homogeneous([i \in DOMAIN r |-> r[i][1]])}}

CrsInputs == {"EPSG:4326", "not-a-crs"}

\* the coordinate columns the user picks for points mode
PointsArgs ==
    {[lon_col |-> a, lat_col |-> b, crs |-> c] :
        a \in {N_x, N_y}, b \in {N_x, N_y}, c \in CrsInputs}

GeomArgs ==
    {[geom_col |-> g, crs |-> c] :
        g \in Range(BuildCols) \cup Range(BuildColsGeometry), c \in CrsInputs}

\* session state at line 172, and one holding an earlier table
NewSession == [gdf |-> None, show_output_options |-> FALSE]

EarlierGdf ==
    GeoDataFrame(<<N_id>>, <<<<Num(7)>>>>,
                 <<[t |-> "geom", type |-> "POINT", coords |-> <<3, 4>>]>>,
                 "EPSG:4326")

EarlierSession == [gdf |-> EarlierGdf, show_output_options |-> TRUE]

NoCall == [fn |-> "none"]

AppOff ==
    /\ uploaded_file = None
    /\ widgets = None
    /\ gdf_origin = None
    /\ pc = "off"
    /\ run = None
    /\ scratch = {}

AppUnchanged ==
    UNCHANGED <<uploaded_file, widgets, gdf_origin, pc, run, scratch>>

InitDetect ==
    /\ df \in DetectTables
    /\ call = NoCall
    /\ ret = None
    /\ session_state = NewSession
    /\ AppOff

CallDetect ==
    /\ call = NoCall
    /\ call' = [fn |-> "detect_geometry_columns"]
    /\ ret' = detect_geometry_columns(df)
    /\ UNCHANGED <<df, session_state>>
    /\ AppUnchanged

NextDetect == CallDetect

SpecDetect == InitDetect /\ [][NextDetect]_vars

InitBuild ==
    /\ df \in BuildTables
    /\ call = NoCall
    /\ ret = None
    /\ session_state \in {NewSession, EarlierSession}
    /\ AppOff

Click(mode, kwargs) ==
    /\ call = NoCall
    /\ call' = [fn |-> "convert_csv_to_geodataframe", mode |-> mode,
                kwargs |-> kwargs]
    /\ ret' = convert_csv_to_geodataframe(df, mode, kwargs)
    /\ session_state' = BuildButton(session_state, df, mode, kwargs)
    /\ UNCHANGED df
    /\ AppUnchanged

ClickPoints == \E kwargs \in PointsArgs : Click("points", kwargs)
ClickWkt ==
    \E kwargs \in GeomArgs :
        kwargs.geom_col \in Range(df.cols) /\ Click("wkt", kwargs)
ClickGeoJson ==
    \E kwargs \in GeomArgs :
        kwargs.geom_col \in Range(df.cols) /\ Click("geojson", kwargs)

NextBuild == ClickPoints \/ ClickWkt \/ ClickGeoJson

SpecBuild == InitBuild /\ [][NextBuild]_vars

-----------------------------------------------------------------------------
(* The Streamlit script: one run per user interaction                      *)

\* a file of the uploader: kind says what its reader makes of it
File(name, ext, kind, table, bad_seps) ==
    [name |-> name, ext |-> ext, kind |-> kind, table |-> table,
     bad_seps |-> bad_seps]

Separators == {",", ";"}

CsvRowsA ==
    << <<Num(1), Num(2), Str(T_point)>>, <<Null, Num(2), Null>> >>
CsvRowsB ==
    << <<Str(T_ten), Num(2), Str(T_json_point)>>,
       <<Str(T_foo), Num(2), Str(T_point)>> >>

CsvFiles ==
    {File("a.csv", "csv", "ok", DataFrame(BuildCols, CsvRowsA), {}),
     File("b.csv", "csv", "ok", DataFrame(BuildCols, CsvRowsB), {";"})}

MaxFeatures == 1

P12 == [t |-> "geom", type |-> "POINT", coords |-> <<1, 2>>]

\* what a vector file holds: features whose geometry is a point or null
VectorTables ==
    {GeoDataFrame(<<N_id>>, [i \in DOMAIN g |-> <<Num(i)>>], g, "EPSG:4326") :
        g \in SeqsUpTo({P12, None}, MaxFeatures)}

VectorFiles ==
    {File("v", ext, "ok", t, {}) :
        ext \in {"geojson", "parquet", "gpkg"}, t \in VectorTables}
    \cup {File("corrupt", "geojson", "corrupt", None, {})}

ZipFiles ==
    {File("z", "zip", "ok", t, {}) : t \in VectorTables}
    \cup {File("z", "zip", kind, None, {}) :
            kind \in {"bad_zip", "no_shp", "corrupt"}}

Files == CsvFiles \cup VectorFiles \cup ZipFiles

NoWidgets == [selected_sep |-> ",", button |-> "none", kwargs |-> None]

\* the values the widgets of lines 193-296 can hold in a run on file f
WidgetInputs(f) ==
    IF f.ext # "csv" THEN {NoWidgets}
    ELSE LET columns == f.table.cols
             geometry_candidates ==
                 detect_geometry_columns(f.table).geometry_candidates
             geom_col_options ==
                 IF geometry_candidates # <<>> THEN geometry_candidates
                 ELSE columns
         IN {[selected_sep |-> sep, button |-> "none", kwargs |-> None] :
                sep \in Separators}
            \cup {[selected_sep |-> sep, button |-> "points",
                   kwargs |-> [lon_col |-> a, lat_col |-> b, crs |-> c]] :
                    sep \in Separators, a \in Range(columns),
                    b \in Range(columns), c \in CrsInputs}
            \cup {[selected_sep |-> sep, button |-> m,
                   kwargs |-> [geom_col |-> g, crs |-> c]] :
                    sep \in Separators, m \in {"wkt", "geojson"},
                    g \in Range(geom_col_options), c \in CrsInputs}

NewRun ==
    [errors |-> <<>>, failed |-> {}, warnings |-> <<>>, shown |-> FALSE,
     format_options |-> <<>>, output_format |-> "", created |-> 0,
     tmpdir |-> 0, raised |-> FALSE]

\* line 354
all_formats == <<"geojson", "parquet", "shp", "gpkg">>

\* a variant that takes a zip upload for a Shapefile input
FormatOptions_ZipIsShp(file_extension) ==
    LET ext == IF file_extension = "zip" THEN "shp" ELSE file_extension
    IN SelectSeq(all_formats, LAMBDA fmt : fmt # ext)

\* lines 357-360
FormatOptions(file_extension) ==
    IF file_extension \in {"geojson", "parquet", "shp", "gpkg"}
    THEN SelectSeq(all_formats, LAMBDA fmt : fmt # file_extension)
    ELSE all_formats

\* tempfile.TemporaryDirectory(): a directory that does not exist yet
NewDir(dirs) == CHOOSE d \in 1..(MaxScratch + 1) : d \notin dirs

\* a variant that removes the directory only when the block ends normally
Cleanup_LeaksOnException(dirs, dir, raised) ==
    IF raised THEN dirs ELSE dirs \ {dir}

\* TemporaryDirectory.__exit__ of lines 126 and 330: runs however the block
\* ends
Cleanup(dirs, dir, raised) == dirs \ {dir}

\* lines 421-424
OuterExcept(r, op) ==
    [r EXCEPT !.errors = @ \o <<"Error processing file">>,
              !.failed = @ \cup {op}]

Init ==
    /\ df = None
    /\ call = NoCall
    /\ ret = None
    /\ uploaded_file = None
    /\ widgets = NoWidgets
    /\ session_state = NewSession
    /\ gdf_origin = None
    /\ pc = "idle"
    /\ run = NewRun
    /\ scratch = {}

FnUnchanged == UNCHANGED <<df, call, ret>>

\* the user puts a new file in the uploader: the script runs, no button
\* pressed
Upload ==
    /\ pc = "idle"
    /\ \E f \in Files \ {uploaded_file} :
          /\ uploaded_file' = f
          /\ \E w \in WidgetInputs(f) : w.button = "none" /\ widgets' = w
    /\ run' = NewRun
    /\ pc' = "dispatch"
    /\ UNCHANGED <<session_state, gdf_origin, scratch>>
    /\ FnUnchanged

\* the user changes a widget or presses a button: the script runs
Interact ==
    /\ pc = "idle"
    /\ uploaded_file # None
    /\ widgets' \in WidgetInputs(uploaded_file)
    /\ run' = NewRun
    /\ pc' = "dispatch"
    /\ UNCHANGED <<uploaded_file, session_state, gdf_origin, scratch>>
    /\ FnUnchanged

\* the user takes the file out of the uploader: line 177 skips the script
ClearUpload ==
    /\ pc = "idle"
    /\ uploaded_file # None
    /\ uploaded_file' = None
    /\ widgets' = NoWidgets
    /\ run' = NewRun
    /\ UNCHANGED <<session_state, gdf_origin, pc, scratch>>
    /\ FnUnchanged

\* lines 183-309
DispatchCsv ==
    LET f == uploaded_file
        r == convert_csv_to_geodataframe(f.table, widgets.button,
                                         widgets.kwargs)
    IN IF widgets.selected_sep \in f.bad_seps
       THEN /\ run' = [run EXCEPT
                          !.errors = @ \o <<"Error parsing CSV">>,
                          !.failed = @ \cup {"read"}]
            /\ pc' = "output"
            /\ UNCHANGED <<session_state, gdf_origin>>
       ELSE IF widgets.button = "none"
       THEN /\ pc' = "output"
            /\ UNCHANGED <<run, session_state, gdf_origin>>
       ELSE /\ session_state' =
                   BuildButton(session_state, f.table, widgets.button,
                               widgets.kwargs)
            /\ IF r.t = "raised"
               THEN /\ run' = OuterExcept(
                                 [run EXCEPT !.errors = @ \o r.errors,
                                             !.warnings = r.warnings],
                                 "build")
                    /\ pc' = "idle"
                    /\ UNCHANGED gdf_origin
               ELSE /\ run' = [run EXCEPT !.warnings = r.warnings]
                    /\ gdf_origin' = f
                    /\ pc' = "output"

\* lines 311-325
DispatchVector ==
    LET f == uploaded_file
    IN IF f.kind # "ok"
       THEN /\ run' = OuterExcept(run, "read")
            /\ pc' = "idle"
            /\ UNCHANGED <<session_state, gdf_origin>>
       ELSE /\ session_state' = [gdf |-> f.table, show_output_options |-> TRUE]
            /\ gdf_origin' = f
            /\ pc' = "output"
            /\ UNCHANGED run

\* lines 177-330: the branch of the file's extension; the zip branch enters
\* its scratch directory
Dispatch ==
    /\ pc = "dispatch"
    /\ FnUnchanged
    /\ UNCHANGED <<uploaded_file, widgets>>
    /\ IF uploaded_file.ext = "csv" THEN DispatchCsv /\ UNCHANGED scratch
       ELSE IF uploaded_file.ext \in {"geojson", "parquet", "gpkg"}
       THEN DispatchVector /\ UNCHANGED scratch
       ELSE /\ Cardinality(scratch) <= MaxScratch
            /\ scratch' = scratch \cup {NewDir(scratch)}
            /\ run' = [run EXCEPT !.created = @ + 1,
                                  !.tmpdir = NewDir(scratch)]
            /\ pc' = "zip_body"
            /\ UNCHANGED <<session_state, gdf_origin>>

\* lines 331-345, inside the scratch directory
ZipBody ==
    /\ pc = "zip_body"
    /\ FnUnchanged
    /\ UNCHANGED <<uploaded_file, widgets, scratch>>
    /\ pc' = "zip_exit"
    /\ LET f == uploaded_file
       IN CASE f.kind \in {"bad_zip", "corrupt"} ->
                 /\ run' = [run EXCEPT !.raised = TRUE,
                                       !.failed = @ \cup {"read"}]
                 /\ UNCHANGED <<session_state, gdf_origin>>
            [] f.kind = "no_shp" ->
                 /\ run' = [run EXCEPT
                               !.errors = @ \o <<"No .shp file found">>,
                               !.failed = @ \cup {"read"}]
                 /\ UNCHANGED <<session_state, gdf_origin>>
            [] OTHER ->
                 /\ session_state' =
                        [gdf |-> f.table, show_output_options |-> TRUE]
                 /\ gdf_origin' = f
                 /\ UNCHANGED run

\* leaving the with block of line 330, then lines 346-347
ZipExit ==
    /\ pc = "zip_exit"
    /\ FnUnchanged
    /\ UNCHANGED <<uploaded_file, widgets, session_state, gdf_origin>>
    /\ scratch' = Cleanup(scratch, run.tmpdir, run.raised)
    /\ run' = [run EXCEPT
                  !.errors = IF run.raised
                             THEN @ \o <<"Error processing ZIP file">> ELSE @,
                  !.raised = FALSE,
                  !.tmpdir = 0]
    /\ pc' = "output"

\* lines 350-419: the export section; save_file_to_zip enters its scratch
\* directory at line 126
Output ==
    /\ pc = "output"
    /\ FnUnchanged
    /\ UNCHANGED <<uploaded_file, widgets, session_state, gdf_origin>>
    /\ IF ~(session_state.show_output_options /\ session_state.gdf # None)
       THEN pc' = "idle" /\ UNCHANGED <<run, scratch>>
       ELSE LET format_options == FormatOptions(uploaded_file.ext)
            IN \E output_format \in Range(format_options) :
                 LET shown == [run EXCEPT !.shown = TRUE,
                                          !.format_options = format_options,
                                          !.output_format = output_format]
                 IN IF output_format \in {"geojson", "parquet"}
                    THEN /\ \E ok \in BOOLEAN :
                              run' = IF ok THEN shown
                                     ELSE OuterExcept(shown, "export")
                         /\ pc' = "idle"
                         /\ UNCHANGED scratch
                    ELSE /\ Cardinality(scratch) <= MaxScratch
                         /\ scratch' = scratch \cup {NewDir(scratch)}
                         /\ run' = [shown EXCEPT !.created = @ + 1,
                                                 !.tmpdir = NewDir(scratch)]
                         /\ pc' = "save_body"

\* lines 129-148: gdf.to_file writes the table or raises
SaveBody ==
    /\ pc = "save_body"
    /\ FnUnchanged
    /\ UNCHANGED <<uploaded_file, widgets, session_state, gdf_origin, scratch>>
    /\ \E ok \in BOOLEAN :
          run' = IF ok THEN run
                 ELSE [run EXCEPT !.raised = TRUE,
                                  !.failed = @ \cup {"export"}]
    /\ pc' = "save_exit"

\* leaving the with block of line 126, then lines 421-424 when it raised
SaveExit ==
    /\ pc = "save_exit"
    /\ FnUnchanged
    /\ UNCHANGED <<uploaded_file, widgets, session_state, gdf_origin>>
    /\ scratch' = Cleanup(scratch, run.tmpdir, run.raised)
    /\ run' = [(IF run.raised THEN OuterExcept(run, "export") ELSE run)
                  EXCEPT !.raised = FALSE, !.tmpdir = 0]
    /\ pc' = "idle"

Next ==
    \/ Upload
    \/ Interact
    \/ ClearUpload
    \/ Dispatch
    \/ ZipBody
    \/ ZipExit
    \/ Output
    \/ SaveBody
    \/ SaveExit

Spec == Init /\ [][Next]_vars

-----------------------------------------------------------------------------
(* Properties of the builder, under SpecBuild                              *)

IsConvert(c, modes) == c.fn = "convert_csv_to_geodataframe" /\ c.mode \in modes

\* a cell that is null or does not read as a number
NotNumeric(c) == ~notna(c) \/ ~to_float(c).ok

\* the rows of d whose index satisfies keep, in order
RowsWhere(d, keep(_)) ==
    LET RECURSIVE Build(_)
        Build(k) ==
            IF k > Len(d.rows) THEN <<>>
            ELSE (IF keep(k) THEN <<d.rows[k]>> ELSE <<>>) \o Build(k + 1)
    IN Build(1)

\* C1: points mode excludes exactly the rows whose longitude or latitude is
\* null or non-numeric, reports their number, and gives every other row the
\* Point of its (lon, lat) pair.
C1_PointsExcludeNullOrNonNumeric ==
    (IsConvert(call, {"points"}) /\ CrsResolves(call.kwargs.crs)) =>
        LET lon == Column(df, call.kwargs.lon_col)
            lat == Column(df, call.kwargs.lat_col)
            out(i) == NotNumeric(lon[i]) \/ NotNumeric(lat[i])
            in(i) == ~out(i)
            excluded == Cardinality({i \in DOMAIN df.rows : out(i)})
            kept == RowsWhere(df, in)
            ix == ColIdx(df, call.kwargs.lon_col)
            iy == ColIdx(df, call.kwargs.lat_col)
        IN /\ ret.t = "returned"
           /\ Column(ret.gdf, call.kwargs.lon_col) =
                  [k \in DOMAIN kept |-> kept[k][ix]]
           /\ Column(ret.gdf, call.kwargs.lat_col) =
                  [k \in DOMAIN kept |-> kept[k][iy]]
           /\ ret.warnings = IF excluded = 0 THEN <<>> ELSE <<excluded>>
           /\ \A k \in DOMAIN kept :
                 ret.gdf.geometry[k].coords =
                     <<to_float(kept[k][ix]).v, to_float(kept[k][iy]).v>>

\* some value of the geometry column that is not null does not parse
SomeValueFailsToParse(d, c) ==
    \E i \in DOMAIN d.rows :
        /\ notna(Column(d, c.kwargs.geom_col)[i])
        /\ ~Parse(c.mode, Column(d, c.kwargs.geom_col)[i]).ok

\* C3: in wkt and geojson mode one value that does not parse fails the whole
\* build: the builder raises, returns no table, and the button's handler
\* leaves session_state as it was.
C3_OneBadValueFailsTheBuild ==
    [][(IsConvert(call', {"wkt", "geojson"}) /\ SomeValueFailsToParse(df, call'))
          => /\ ret'.t = "raised"
             /\ ret'.gdf = None
             /\ session_state' = session_state]_vars

C3_Witness ==
    /\ IsConvert(call, {"geojson"})
    /\ SomeValueFailsToParse(df, call)
    /\ \E i \in DOMAIN df.rows :
          Parse(call.mode, Column(df, call.kwargs.geom_col)[i]).ok
    /\ ret.t = "raised"
    /\ ret.constructed = 1
    /\ session_state = EarlierSession

\* C6: with a CRS string that does not resolve the build aborts before any
\* geometry is constructed and returns no table.
C6_CrsCheckedBeforeGeometry ==
    (IsConvert(call, {"points", "wkt", "geojson"})
     /\ ~CrsResolves(call.kwargs.crs))
        => /\ ret.t = "raised"
           /\ ret.constructed = 0
           /\ ret.gdf = None

\* C11: points mode on a table with no valid row (every row has a longitude
\* or latitude that is null or non-numeric) returns an empty table and no
\* error; the handler stores it and turns the export options on.
C11_ZeroValidRowsYieldEmptyTable ==
    (/\ IsConvert(call, {"points"})
     /\ CrsResolves(call.kwargs.crs)
     /\ \A i \in DOMAIN df.rows :
           \/ NotNumeric(Column(df, call.kwargs.lon_col)[i])
           \/ NotNumeric(Column(df, call.kwargs.lat_col)[i]))
        => /\ ret.t = "returned"
           /\ ret.errors = <<>>
           /\ ret.gdf.rows = <<>>
           /\ ret.gdf.geometry = <<>>
           /\ session_state = [gdf |-> ret.gdf, show_output_options |-> TRUE]

\* the rows the builder keeps: those whose source values are not null
KeptRows(d, c) ==
    LET keep(i) ==
            IF c.mode = "points"
            THEN /\ notna(Column(d, c.kwargs.lon_col)[i])
                 /\ notna(Column(d, c.kwargs.lat_col)[i])
            ELSE notna(Column(d, c.kwargs.geom_col)[i])
    IN RowsWhere(d, keep)

\* column col of the built table holds what it holds in the kept rows of d
ColumnKept(d, c, gdf, col) ==
    /\ col \in Range(gdf.cols)
    /\ Column(gdf, col) =
           [k \in DOMAIN KeptRows(d, c) |-> KeptRows(d, c)[k][ColIdx(d, col)]]

\* C12: the built table has, in wkt and geojson mode, every input column but
\* the source text column; in points mode every input column, the longitude
\* and latitude columns among them, beside the new geometry; the caller's
\* table is as it was.
C12_ColumnsOfTheBuiltTable ==
    (IsConvert(call, {"points", "wkt", "geojson"}) /\ ret.t = "returned") =>
        /\ ret.df = df
        /\ Len(ret.gdf.geometry) = Len(ret.gdf.rows)
        /\ call.mode \in {"wkt", "geojson"} =>
              /\ call.kwargs.geom_col \notin Range(ret.gdf.cols)
              /\ \A col \in Range(df.cols) \ {call.kwargs.geom_col} :
                    ColumnKept(df, call, ret.gdf, col)
        /\ call.mode = "points" =>
              \A col \in Range(df.cols) : ColumnKept(df, call, ret.gdf, col)

-----------------------------------------------------------------------------
(* Properties of the script, under Spec                                    *)

\* C2: whenever the export section is shown, the table it offers was built
\* from the file that is in the uploader.
C2_OfferedTableIsFromActiveUpload ==
    run.shown => gdf_origin = uploaded_file

\* C4: every row of the table in session_state has a geometry that is not
\* null.
C4_StoredRowsHaveGeometry ==
    session_state.gdf # None =>
        \A i \in DOMAIN session_state.gdf.geometry :
            session_state.gdf.geometry[i] # None

C7_AllFourFormatsOffered ==
    run.shown => Range(run.format_options) = Range(all_formats)

\* C7, amended: a csv or zip input is offered all four formats; a geojson,
\* parquet or gpkg input is offered the three formats other than its own.
C7_FormatsOfferedExceptOwn ==
    run.shown =>
        /\ uploaded_file.ext \in {"csv", "zip"}
              => Range(run.format_options) = Range(all_formats)
        /\ uploaded_file.ext \in {"geojson", "parquet", "gpkg"}
              => Range(run.format_options) =
                     Range(all_formats) \ {uploaded_file.ext}
        /\ run.output_format \in Range(run.format_options)

C7_Witness ==
    /\ pc = "idle"
    /\ run.shown
    /\ uploaded_file.ext = "geojson"
    /\ run.format_options = <<"parquet", "shp", "gpkg">>

\* C10: a scratch directory exists only while the operation that made it is
\* running; none is left when the zip reader, the exporter or the run ends,
\* whether they ended normally or by an exception.
C10_ScratchReleased ==
    /\ pc \in {"idle", "dispatch", "output"} => scratch = {}
    /\ pc \in {"zip_body", "zip_exit", "save_body", "save_exit"}
          => scratch = {run.tmpdir}

C10_Witness ==
    /\ pc = "idle"
    /\ run.created = 2
    /\ run.failed = {"read", "export"}
    /\ run.output_format = "shp"
    /\ scratch = {}

-----------------------------------------------------------------------------
(* Properties of the detector, under SpecDetect                            *)

\* the pattern ^(POINT|LINESTRING|POLYGON|MULTIPOINT|MULTILINESTRING|
\* MULTIPOLYGON)\s*\( , case-insensitive
MatchesWktPattern(v) ==
    /\ isinstance_str(v)
    /\ v.s # <<>>
    /\ UpperWord(v.s[1]) \in WktTypes
    /\ Len(NoBlanks(v.s)) >= 2
    /\ NoBlanks(v.s)[2] = "("

\* C8: a column whose sample holds a value matching the WKT prefix pattern,
\* at whichever position, is among the candidates.
C8_SampledWktValueMakesCandidate ==
    ret.t = "detected" =>
        \A col \in Range(df.cols) :
            (\E i \in DOMAIN Sample(df, col) :
                 MatchesWktPattern(Sample(df, col)[i]))
              => col \in Range(ret.geometry_candidates)

\* the name equals a name of the list when case is ignored
NameInVocabulary(col) ==
    \E g \in GeometryNames :
        /\ Len(g) = Len(col)
        /\ \A i \in DOMAIN g : LowerChar(g[i]) = LowerChar(col[i])

\* C9: a column whose name is in the geometry vocabulary, case ignored, is
\* among the candidates whatever it holds; the detector does not raise and
\* leaves the table as it was.
C9_NamedColumnAlwaysCandidate ==
    ret.t = "detected" =>
        /\ ~ret.raised
        /\ ret.df = df
        /\ \A col \in Range(df.cols) :
              NameInVocabulary(col) => col \in Range(ret.geometry_candidates)

C9_Witness ==
    /\ ret.t = "detected"
    /\ df.cols[1] = N_GEOM
    /\ Len(df.rows) = MaxDetectRows
    /\ \A i \in DOMAIN df.rows : df.rows[i][1] \in {Null, Str(T_foo)}
    /\ \E i \in DOMAIN df.rows : df.rows[i][1] = Str(T_foo)
    /\ N_GEOM \in Range(ret.geometry_candidates)

====
